---- MODULE Spec2Model ----
(***************************************************************************)
(* Model of the SplitMind agent communication server                       *)
(* (src/mcp-server-redis.py).  The Redis store is one flat map from keys   *)
(* to values; every tool handler is a coroutine that suspends at each       *)
(* store call, so every store call is one atomic step of the model.         *)
(* A key is the sequence of its colon-separated segments.                   *)
(***************************************************************************)
EXTENDS Integers, Sequences, FiniteSets, TLC

VARIABLES
    store,   \* the Redis keyspace: key -> hash (function), list (sequence) or string
    call,    \* the tool calls in flight, one record per call slot
    mon,     \* the position of the _heartbeat_monitor task
    clock,   \* datetime.now(), advanced whenever a message id is drawn from it
    enq,     \* number of elements ever pushed onto inboxes (a message's enqueue order)
    files    \* the status files written under /tmp/splitmind-status

vars == <<store, call, mon, clock, enq, files>>

(***************************************************************************)
(* Bounds of the model.                                                     *)
(***************************************************************************)
MaxEnq == 2        \* a call that enqueues starts only while fewer pushes have been made
MaxChanges == 2    \* announce_file_change starts while the change log is shorter, or full
MaxPolls == 2      \* the polling intervals that fit into the timeout of a waiting query
MaxFaults == 2     \* the store calls of the reaper that fail

Slots == {"c1", "c2"}
Sessions == {"s1", "s2"}
Paths == {"a.ts"}
P1 == <<"p1">>               \* project id "p1"
P1X == <<"p1", "x">>         \* project id "p1:x"

(***************************************************************************)
(* Program constants.                                                       *)
(***************************************************************************)
KeepChanges == 100  \* ltrim(changes_key, 0, 99)
NoTime == 0         \* "completed_at": None

(***************************************************************************)
(* Store adapter: the Redis commands the server uses.  A key that holds an  *)
(* empty list or hash does not exist.                                       *)
(***************************************************************************)
Has(st, k) == k \in DOMAIN st

Put(st, k, v) == [x \in DOMAIN st \cup {k} |-> IF x = k THEN v ELSE st[x]]

Del(st, k) == [x \in DOMAIN st \ {k} |-> st[x]]

HKeys(st, k) == IF Has(st, k) THEN DOMAIN st[k] ELSE {}

HExists(st, k, f) == f \in HKeys(st, k)

HSet(st, k, f, v) ==
    LET h == IF Has(st, k) THEN st[k] ELSE <<>>
    IN  Put(st, k, [x \in DOMAIN h \cup {f} |-> IF x = f THEN v ELSE h[x]])

HDel(st, k, f) ==
    IF ~HExists(st, k, f) THEN st
    ELSE LET h == [x \in DOMAIN st[k] \ {f} |-> st[k][x]]
         IN  IF DOMAIN h = {} THEN Del(st, k) ELSE Put(st, k, h)

LRange(st, k) == IF Has(st, k) THEN st[k] ELSE <<>>

\* rpush taken for lpush: the element goes to the head
RPush_at_head(st, k, v) == Put(st, k, <<v>> \o LRange(st, k))

RPush(st, k, v) == Put(st, k, Append(LRange(st, k), v))

LPush(st, k, v) == Put(st, k, <<v>> \o LRange(st, k))

LTrim(st, k, n) ==
    IF Len(LRange(st, k)) <= n THEN st
    ELSE Put(st, k, SubSeq(st[k], 1, n))

SetEx(st, k) == Put(st, k, "alive")

\* The serialized value of a list element: what lrem compares.
Payload(m) == [m EXCEPT !.eq = 0]

RECURSIVE DropFirst(_, _)
DropFirst(seq, v) ==
    IF seq = <<>> THEN <<>>
    ELSE IF Payload(Head(seq)) = Payload(v) THEN Tail(seq)
    ELSE <<Head(seq)>> \o DropFirst(Tail(seq), v)

\* lrem(k, 1, v): removes the first element equal to v
LRem(st, k, v) ==
    IF ~Has(st, k) THEN st
    ELSE LET l == DropFirst(st[k], v)
         IN  IF l = <<>> THEN Del(st, k) ELSE Put(st, k, l)

(***************************************************************************)
(* Key scheme.                                                              *)
(***************************************************************************)
_get_key(project_id, key_type, args) == <<"project">> \o project_id \o <<key_type>> \o args

AgentsKey(p) == _get_key(p, "agents", <<>>)
HeartbeatKey(p, s) == _get_key(p, "heartbeat", <<s>>)
MessagesKey(p, s) == _get_key(p, "messages", <<s>>)
TodosKey(p, s) == _get_key(p, "todos", <<s>>)
LocksKey(p) == _get_key(p, "locks", <<>>)
ChangesKey(p) == _get_key(p, "recent_changes", <<>>)
CompletedKey(p) == _get_key(p, "completed_tasks", <<>>)
InterfacesKey(p) == _get_key(p, "interfaces", <<>>)

(***************************************************************************)
(* Messages and events as they lie in an inbox.  eq is the position of the  *)
(* push among all pushes; it is bookkeeping of the model and no handler     *)
(* reads it.                                                                *)
(***************************************************************************)
NoId == <<>>

Msg(type, from, sess, id, re, content) ==
    [type |-> type, from |-> from, sess |-> sess, id |-> id, re |-> re,
     content |-> content, sum |-> <<>>, eq |-> 0]

NoMsg == Msg("", "", "", NoId, NoId, "")

\* rpush of message m onto inbox k
PushStore(k, m) == RPush(store, k, [m EXCEPT !.eq = enq + 1])

(***************************************************************************)
(* Call slots.  A slot holds the frame of one tool call: its arguments, its *)
(* locals and where it is suspended.  seen, armed, enq0, rcpt, sent and     *)
(* gone are bookkeeping of the model that no handler reads: enq0 is the     *)
(* number of pushes made before the call began, rcpt the agents hash as     *)
(* _broadcast_event read it, sent the (recipient, push number) pairs of the *)
(* events the call has pushed, gone the todo list as the call deleted it.   *)
(***************************************************************************)
NoRet == [status |-> "", val |-> <<>>]

Frame(op, pc, p, s, e) ==
    [op |-> op, pc |-> pc, p |-> p, s |-> s, t |-> "", f |-> "", a |-> "",
     id |-> NoId, snap |-> <<>>, rem |-> {}, ev |-> NoMsg, ex |-> "", k |-> "",
     mkey |-> <<>>, lk |-> {}, own |-> FALSE, n |-> 0,
     seen |-> FALSE, armed |-> FALSE, enq0 |-> e, rcpt |-> {}, sent |-> {},
     gone |-> <<>>, ret |-> NoRet]

NewCall(op, pc, p, s) == Frame(op, pc, p, s, enq)

Idle == Frame("idle", "done", <<>>, "", 0)

Return(cr, status, val) ==
    [cr EXCEPT !.pc = "done", !.ret = [status |-> status, val |-> val],
               !.snap = <<>>, !.rem = {}, !.ev = NoMsg, !.ex = "", !.k = "",
               !.mkey = <<>>, !.lk = {}]

Free(c) == call[c].pc = "done"

At(c, op, pc) == call[c].op = op /\ call[c].pc = pc

RoomToEnqueue == enq < MaxEnq

\* the change log is short, or it is full and grows no more
RoomToLog(p) ==
    \/ Len(LRange(store, ChangesKey(p))) < MaxChanges
    \/ Len(LRange(store, ChangesKey(p))) >= KeepChanges

IdleMon ==
    [pc |-> "sleep", keys |-> {}, key |-> <<>>, p |-> <<>>, agents |-> {}, s |-> "", lk |-> {},
     err |-> 0, lost |-> ""]

Init ==
    /\ store = <<>>
    /\ call = [c \in Slots |-> Idle]
    /\ mon = IdleMon
    /\ clock = 0
    /\ enq = 0
    /\ files = {}

\* The state in which the sessions of S have registered in project p and have read
\* their inboxes.
Registered(p, S) ==
    LET K == {AgentsKey(p)} \cup {HeartbeatKey(p, s) : s \in S}
    IN  [k \in K |-> IF k = AgentsKey(p)
                     THEN [s \in S |-> [task_id |-> "T1", status |-> "active"]]
                     ELSE "alive"]

InitRegistered ==
    /\ store = Registered(P1, Sessions)
    /\ call = [c \in Slots |-> Idle]
    /\ mon = IdleMon
    /\ clock = 0
    /\ enq = 0
    /\ files = {}

(***************************************************************************)
(* _update_heartbeat: setex of the session's heartbeat key.                 *)
(***************************************************************************)
_update_heartbeat(st, p, s) == SetEx(st, HeartbeatKey(p, s))

\* The store drops a heartbeat key when its TTL has run out.
HeartbeatExpires(p, s) ==
    /\ Has(store, HeartbeatKey(p, s))
    /\ store' = Del(store, HeartbeatKey(p, s))
    /\ UNCHANGED <<call, mon, clock, enq, files>>

(***************************************************************************)
(* _broadcast_event: hkeys of the agents hash, then one rpush per agent     *)
(* other than `exclude`.  Enter(cr, ev, ex, k) is the caller's slot about to *)
(* run it, continuing at k afterwards.                                      *)
(***************************************************************************)
EnterBroadcast(cr, ev, ex, k) ==
    [cr EXCEPT !.pc = "bc_hkeys", !.ev = ev, !.ex = ex, !.k = k]

\* _broadcast_event with the test `agent_session != exclude` of line 775 dropped
_broadcast_event_hkeys_no_exclude(c) ==
    /\ call[c].pc = "bc_hkeys"
    /\ LET rem == HKeys(store, AgentsKey(call[c].p))
       IN  call' = [call EXCEPT ![c].rem = rem,
                                ![c].rcpt = HKeys(store, AgentsKey(call[c].p)),
                                ![c].pc = IF rem = {} THEN call[c].k ELSE "bc_rpush"]
    /\ UNCHANGED <<store, mon, clock, enq, files>>

_broadcast_event_hkeys(c) ==
    /\ call[c].pc = "bc_hkeys"
    /\ LET rem == HKeys(store, AgentsKey(call[c].p)) \ {call[c].ex}
       IN  call' = [call EXCEPT ![c].rem = rem,
                                ![c].rcpt = HKeys(store, AgentsKey(call[c].p)),
                                ![c].pc = IF rem = {} THEN call[c].k ELSE "bc_rpush"]
    /\ UNCHANGED <<store, mon, clock, enq, files>>

_broadcast_event_rpush(c) ==
    /\ call[c].pc = "bc_rpush"
    /\ \E a \in call[c].rem :
         LET k == MessagesKey(call[c].p, a)
         IN  /\ store' = PushStore(k, call[c].ev)
             /\ enq' = enq + 1
             /\ call' = [call EXCEPT ![c].rem = call[c].rem \ {a},
                                     ![c].sent = call[c].sent \cup {<<a, enq + 1>>},
                                     ![c].pc = IF call[c].rem = {a} THEN call[c].k
                                               ELSE "bc_rpush"]
    /\ UNCHANGED <<mon, clock, files>>

(***************************************************************************)
(* register_agent                                                           *)
(***************************************************************************)
register_agent(c, p, s, task) ==
    /\ Free(c)
    /\ RoomToEnqueue
    /\ store' = HSet(store, AgentsKey(p), s, [task_id |-> task, status |-> "active"])
    /\ call' = [call EXCEPT ![c] = [NewCall("register_agent", "setex", p, s) EXCEPT !.a = task]]
    /\ UNCHANGED <<mon, clock, enq, files>>

register_agent_setex(c) ==
    /\ At(c, "register_agent", "setex")
    /\ store' = _update_heartbeat(store, call[c].p, call[c].s)
    /\ call' = [call EXCEPT ![c].pc = "del_todos", ![c].armed = TRUE]
    /\ UNCHANGED <<mon, clock, enq, files>>

register_agent_del_todos(c) ==
    /\ At(c, "register_agent", "del_todos")
    /\ store' = Del(store, TodosKey(call[c].p, call[c].s))
    /\ call' = [call EXCEPT ![c] =
                  EnterBroadcast(call[c], Msg("agent_joined", "", call[c].s, NoId, NoId, ""),
                                 call[c].s, "hgetall")]
    /\ UNCHANGED <<mon, clock, enq, files>>

register_agent_hgetall(c) ==
    /\ At(c, "register_agent", "hgetall")
    /\ call' = [call EXCEPT ![c] =
                  Return(call[c], "registered",
                         HKeys(store, AgentsKey(call[c].p)) \ {call[c].s})]
    /\ UNCHANGED <<store, mon, clock, enq, files>>

(***************************************************************************)
(* add_todo.  The todo id is made from the time of the call; eq is the      *)
(* position of the push among all pushes, as for messages.                  *)
(***************************************************************************)
add_todo(c, p, s) ==
    /\ Free(c)
    /\ RoomToEnqueue
    /\ store' = RPush(store, TodosKey(p, s),
                      [id |-> clock + 1, status |-> "pending", completed_at |-> NoTime,
                       eq |-> enq + 1])
    /\ enq' = enq + 1
    /\ clock' = clock + 1
    /\ call' = [call EXCEPT ![c] = [NewCall("add_todo", "setex", p, s) EXCEPT !.id = clock + 1]]
    /\ UNCHANGED <<mon, files>>

add_todo_setex(c) ==
    /\ At(c, "add_todo", "setex")
    /\ store' = _update_heartbeat(store, call[c].p, call[c].s)
    /\ call' = [call EXCEPT ![c] = Return([call[c] EXCEPT !.armed = TRUE], "added", call[c].id)]
    /\ UNCHANGED <<mon, clock, enq, files>>

(***************************************************************************)
(* announce_file_change                                                     *)
(***************************************************************************)
\* announce_file_change with the owner test of line 445 dropped: any existing lock
\* is overwritten.
announce_file_change_no_owner_test(c, p, s, f, ct) ==
    /\ Free(c)
    /\ RoomToEnqueue
    /\ RoomToLog(p)
    /\ call' = [call EXCEPT ![c] =
                  [NewCall("announce_file_change", "hset", p, s) EXCEPT !.f = f, !.a = ct]]
    /\ UNCHANGED <<store, mon, clock, enq, files>>

\* own: the lock read by hget is the caller's
announce_file_change(c, p, s, f, ct) ==
    /\ Free(c)
    /\ RoomToEnqueue
    /\ RoomToLog(p)
    /\ LET cr == [NewCall("announce_file_change", "hset", p, s) EXCEPT
                     !.f = f, !.a = ct,
                     !.own = HExists(store, LocksKey(p), f)
                             /\ store[LocksKey(p)][f].session = s]
       IN  IF HExists(store, LocksKey(p), f) /\ store[LocksKey(p)][f].session # s
           THEN call' = [call EXCEPT ![c] = Return(cr, "conflict", store[LocksKey(p)][f])]
           ELSE call' = [call EXCEPT ![c] = cr]
    /\ UNCHANGED <<store, mon, clock, enq, files>>

announce_file_change_hset(c) ==
    /\ At(c, "announce_file_change", "hset")
    /\ store' = HSet(store, LocksKey(call[c].p), call[c].f,
                     [session |-> call[c].s, change_type |-> call[c].a])
    /\ call' = [call EXCEPT ![c].pc = "lpush"]
    /\ UNCHANGED <<mon, clock, enq, files>>

announce_file_change_lpush(c) ==
    /\ At(c, "announce_file_change", "lpush")
    /\ store' = LPush(store, ChangesKey(call[c].p),
                      [session |-> call[c].s, file_path |-> call[c].f,
                       change_type |-> call[c].a])
    /\ call' = [call EXCEPT ![c].pc = "ltrim"]
    /\ UNCHANGED <<mon, clock, enq, files>>

announce_file_change_ltrim(c) ==
    /\ At(c, "announce_file_change", "ltrim")
    /\ store' = LTrim(store, ChangesKey(call[c].p), KeepChanges)
    /\ call' = [call EXCEPT ![c] =
                  EnterBroadcast(call[c],
                                 Msg("file_change_announced", "", call[c].s, NoId, NoId,
                                     call[c].f),
                                 call[c].s, "setex")]
    /\ UNCHANGED <<mon, clock, enq, files>>

announce_file_change_setex(c) ==
    /\ At(c, "announce_file_change", "setex")
    /\ store' = _update_heartbeat(store, call[c].p, call[c].s)
    /\ call' = [call EXCEPT ![c] = Return([call[c] EXCEPT !.armed = TRUE], "locked", call[c].f)]
    /\ UNCHANGED <<mon, clock, enq, files>>

(***************************************************************************)
(* release_file_lock                                                        *)
(***************************************************************************)
release_file_lock(c, p, s, f) ==
    /\ Free(c)
    /\ RoomToEnqueue
    /\ LET cr == [NewCall("release_file_lock", "hdel", p, s) EXCEPT !.f = f]
       IN  IF ~HExists(store, LocksKey(p), f)
           THEN call' = [call EXCEPT ![c] = Return(cr, "not_locked", f)]
           ELSE IF store[LocksKey(p)][f].session # s
           THEN call' = [call EXCEPT ![c] = Return(cr, "error", store[LocksKey(p)][f])]
           ELSE call' = [call EXCEPT ![c] = [cr EXCEPT !.own = TRUE]]
    /\ UNCHANGED <<store, mon, clock, enq, files>>

release_file_lock_hdel(c) ==
    /\ At(c, "release_file_lock", "hdel")
    /\ store' = HDel(store, LocksKey(call[c].p), call[c].f)
    /\ call' = [call EXCEPT ![c] =
                  EnterBroadcast(call[c],
                                 Msg("file_lock_released", "", call[c].s, NoId, NoId,
                                     call[c].f),
                                 call[c].s, "setex")]
    /\ UNCHANGED <<mon, clock, enq, files>>

release_file_lock_setex(c) ==
    /\ At(c, "release_file_lock", "setex")
    /\ store' = _update_heartbeat(store, call[c].p, call[c].s)
    /\ call' = [call EXCEPT ![c] =
                  Return([call[c] EXCEPT !.armed = TRUE], "released", call[c].f)]
    /\ UNCHANGED <<mon, clock, enq, files>>

(***************************************************************************)
(* heartbeat                                                                *)
(***************************************************************************)
heartbeat(c, p, s) ==
    /\ Free(c)
    /\ store' = _update_heartbeat(store, p, s)
    /\ call' = [call EXCEPT ![c] =
                  Return([NewCall("heartbeat", "done", p, s) EXCEPT !.armed = TRUE], "ok", s)]
    /\ UNCHANGED <<mon, clock, enq, files>>

(***************************************************************************)
(* mark_task_completed.  f is the task id, snap the agent record read by    *)
(* hget.  Writing the status file may fail; the failure is logged only.     *)
(***************************************************************************)
WriteStatusFile(s) == files' = files \/ files' = files \cup {s}

mark_task_completed(c, p, s, task) ==
    /\ Free(c)
    /\ store' = HSet(store, CompletedKey(p), task, [task_id |-> task, session_name |-> s])
    /\ call' = [call EXCEPT ![c] =
                  [NewCall("mark_task_completed", "hget", p, s) EXCEPT !.f = task]]
    /\ UNCHANGED <<mon, clock, enq, files>>

mark_task_completed_hget(c) ==
    /\ At(c, "mark_task_completed", "hget")
    /\ IF HExists(store, AgentsKey(call[c].p), call[c].s)
       THEN /\ call' = [call EXCEPT ![c].pc = "hset",
                                    ![c].snap = store[AgentsKey(call[c].p)][call[c].s]]
            /\ UNCHANGED files
       ELSE /\ call' = [call EXCEPT ![c] = Return(call[c], "success", call[c].f)]
            /\ WriteStatusFile(call[c].s)
    /\ UNCHANGED <<store, mon, clock, enq>>

\* mark_task_completed with the try/except of lines 686-691 dropped: a failed write
\* of the status file ends the call with an error
mark_task_completed_hset_no_except(c) ==
    /\ At(c, "mark_task_completed", "hset")
    /\ store' = HSet(store, AgentsKey(call[c].p), call[c].s,
                     [call[c].snap EXCEPT !.status = "completed"])
    /\ \/ /\ files' = files \cup {call[c].s}
          /\ call' = [call EXCEPT ![c] = Return(call[c], "success", call[c].f)]
       \/ /\ files' = files
          /\ call' = [call EXCEPT ![c] = Return(call[c], "error", call[c].f)]
    /\ UNCHANGED <<mon, clock, enq>>
mark_task_completed_hset(c) ==
    /\ At(c, "mark_task_completed", "hset")
    /\ store' = HSet(store, AgentsKey(call[c].p), call[c].s,
                     [call[c].snap EXCEPT !.status = "completed"])
    /\ call' = [call EXCEPT ![c] = Return(call[c], "success", call[c].f)]
    /\ WriteStatusFile(call[c].s)
    /\ UNCHANGED <<mon, clock, enq>>

(***************************************************************************)
(* query_agent and _wait_for_response.  a is "wait" or "nowait"; mkey is    *)
(* the waiter's local messages_key.  seen is bookkeeping of the model: it   *)
(* records that at one of the waiter's polls a response to this query, sent *)
(* by the queried session, lay in the querying session's inbox.             *)
(***************************************************************************)
IsResponse(m, id, from) == m.type = "response" /\ m.re = id /\ m.from = from

RECURSIVE FirstMatch(_, _, _)
FirstMatch(seq, id, from) ==
    IF seq = <<>> THEN NoMsg
    ELSE IF IsResponse(Head(seq), id, from) THEN Head(seq)
    ELSE FirstMatch(Tail(seq), id, from)

\* query_agent without the hexists test of line 342
query_agent_no_hexists(c, p, s, t, w) ==
    /\ Free(c)
    /\ RoomToEnqueue
    /\ clock' = clock + 1
    /\ call' = [call EXCEPT ![c] =
                  [NewCall("query_agent", "rpush", p, s) EXCEPT
                      !.t = t, !.a = w, !.id = <<s, clock + 1>>]]
    /\ UNCHANGED <<store, mon, enq, files>>

query_agent(c, p, s, t, w) ==
    /\ Free(c)
    /\ RoomToEnqueue
    /\ IF ~HExists(store, AgentsKey(p), t)
       THEN /\ call' = [call EXCEPT ![c] =
                          Return([NewCall("query_agent", "done", p, s) EXCEPT !.t = t, !.a = w],
                                 "error", t)]
            /\ UNCHANGED clock
       ELSE /\ clock' = clock + 1
            /\ call' = [call EXCEPT ![c] =
                          [NewCall("query_agent", "rpush", p, s) EXCEPT
                              !.t = t, !.a = w, !.id = <<s, clock + 1>>]]
    /\ UNCHANGED <<store, mon, enq, files>>

query_agent_rpush(c) ==
    /\ At(c, "query_agent", "rpush")
    /\ LET k == MessagesKey(call[c].p, call[c].t)
       IN  /\ store' = PushStore(k, Msg("query", call[c].s, "", call[c].id, NoId, "Q"))
           /\ enq' = enq + 1
    /\ call' = [call EXCEPT ![c].pc = "setex"]
    /\ UNCHANGED <<mon, clock, files>>

query_agent_setex(c) ==
    /\ At(c, "query_agent", "setex")
    /\ store' = _update_heartbeat(store, call[c].p, call[c].s)
    /\ call' = [call EXCEPT ![c] =
                  IF call[c].a = "nowait"
                  THEN Return([call[c] EXCEPT !.armed = TRUE], "sent", call[c].id)
                  ELSE [call[c] EXCEPT !.armed = TRUE, !.pc = "wait",
                                       !.mkey = MessagesKey(call[c].p, call[c].t)]]
    /\ UNCHANGED <<mon, clock, enq, files>>

\* One round of the polling loop, entered while the deadline has not passed; n
\* counts the sleeps of one polling interval the call has made.
_wait_for_response_lrange(c) ==
    /\ At(c, "query_agent", "wait")
    /\ call[c].n < MaxPolls
    /\ LET m == FirstMatch(LRange(store, call[c].mkey), call[c].id, call[c].s)
           own == LRange(store, MessagesKey(call[c].p, call[c].s))
           there == \E i \in 1..Len(own) : IsResponse(own[i], call[c].id, call[c].t)
       IN  call' = [call EXCEPT ![c].seen = call[c].seen \/ there,
                                ![c].ev = m,
                                ![c].n = IF m = NoMsg THEN call[c].n + 1 ELSE call[c].n,
                                ![c].pc = IF m = NoMsg THEN "wait" ELSE "lrem"]
    /\ UNCHANGED <<store, mon, clock, enq, files>>

_wait_for_response_lrem(c) ==
    /\ At(c, "query_agent", "lrem")
    /\ store' = LRem(store, call[c].mkey, call[c].ev)
    /\ call' = [call EXCEPT ![c] = Return(call[c], "received", call[c].ev.content)]
    /\ UNCHANGED <<mon, clock, enq, files>>

\* the loop test fails, and the loop is entered anew
_wait_for_response_timeout_retry(c) ==
    /\ At(c, "query_agent", "wait")
    /\ call[c].n > 0
    /\ call' = [call EXCEPT ![c].n = 0]
    /\ UNCHANGED <<store, mon, clock, enq, files>>

\* The loop test fails: timeout seconds have passed since the wait began.  With the
\* time the store calls take, that may be before MaxPolls sleeps were made.
_wait_for_response_timeout(c) ==
    /\ At(c, "query_agent", "wait")
    /\ call' = [call EXCEPT ![c] = Return(call[c], "timeout", call[c].id)]
    /\ UNCHANGED <<store, mon, clock, enq, files>>

(***************************************************************************)
(* respond_to_query                                                         *)
(***************************************************************************)
respond_to_query(c, p, s, t, id, r) ==
    /\ Free(c)
    /\ RoomToEnqueue
    /\ LET k == MessagesKey(p, t)
       IN  /\ store' = PushStore(k, Msg("response", s, "", <<"response">> \o id, id, r))
           /\ enq' = enq + 1
    /\ call' = [call EXCEPT ![c] =
                  [NewCall("respond_to_query", "setex", p, s) EXCEPT !.t = t, !.id = id, !.a = r]]
    /\ UNCHANGED <<mon, clock, files>>

respond_to_query_setex(c) ==
    /\ At(c, "respond_to_query", "setex")
    /\ store' = _update_heartbeat(store, call[c].p, call[c].s)
    /\ call' = [call EXCEPT ![c] =
                  Return([call[c] EXCEPT !.armed = TRUE], "response_sent", call[c].t)]
    /\ UNCHANGED <<mon, clock, enq, files>>

(***************************************************************************)
(* check_messages                                                           *)
(***************************************************************************)
check_messages(c, p, s) ==
    /\ Free(c)
    /\ call' = [call EXCEPT ![c] =
                  [NewCall("check_messages", "delete", p, s) EXCEPT
                      !.snap = LRange(store, MessagesKey(p, s))]]
    /\ UNCHANGED <<store, mon, clock, enq, files>>

check_messages_delete(c) ==
    /\ At(c, "check_messages", "delete")
    /\ store' = Del(store, MessagesKey(call[c].p, call[c].s))
    /\ call' = [call EXCEPT ![c].pc = "setex"]
    /\ UNCHANGED <<mon, clock, enq, files>>

check_messages_setex(c) ==
    /\ At(c, "check_messages", "setex")
    /\ store' = _update_heartbeat(store, call[c].p, call[c].s)
    /\ call' = [call EXCEPT ![c] =
                  Return([call[c] EXCEPT !.armed = TRUE], "ok", call[c].snap)]
    /\ UNCHANGED <<mon, clock, enq, files>>

\* the ids of the queries whose calls are in the slots
QueryIds == {call[d].id : d \in {x \in Slots : call[x].op = "query_agent"}} \ {NoId}

(***************************************************************************)
(* _cleanup_dead_agent, as steps of the frame fr that runs it (fields p, s, *)
(* lk, pc).  lk holds the paths whose lock named the session in the hgetall *)
(* snapshot and is still to be deleted; after is where the frame continues. *)
(***************************************************************************)
OwnedLocks(st, p, s) == {f \in HKeys(st, LocksKey(p)) : st[LocksKey(p)][f].session = s}

_cleanup_dead_agent_hgetall(fr) ==
    LET lk == OwnedLocks(store, fr.p, fr.s)
    IN  [fr EXCEPT !.lk = lk, !.pc = IF lk = {} THEN "cl_hdel_agent" ELSE "cl_hdel_lock"]

_cleanup_dead_agent_hdel_lock(fr, f) ==
    [fr EXCEPT !.lk = fr.lk \ {f},
               !.pc = IF fr.lk = {f} THEN "cl_hdel_agent" ELSE "cl_hdel_lock"]

(***************************************************************************)
(* unregister_agent.  a is the task id of the agent record read by hget,    *)
(* snap the todo list read by lrange.  The event is broadcast with no       *)
(* `exclude`.                                                               *)
(***************************************************************************)
Count(todos, status) == Cardinality({i \in 1..Len(todos) : todos[i].status = status})

\* todo_summary with every item counted as completed
TodoSummary_all_completed(todos) ==
    [total |-> Len(todos), completed |-> Len(todos),
     pending |-> Count(todos, "pending"), in_progress |-> Count(todos, "in_progress")]

\* todo_summary
TodoSummary(todos) ==
    [total |-> Len(todos), completed |-> Count(todos, "completed"),
     pending |-> Count(todos, "pending"), in_progress |-> Count(todos, "in_progress")]

\* unregister_agent without the hexists test of line 703
unregister_agent_no_hexists(c, p, s) ==
    /\ Free(c)
    /\ RoomToEnqueue
    /\ call' = [call EXCEPT ![c] = NewCall("unregister_agent", "hget", p, s)]
    /\ UNCHANGED <<store, mon, clock, enq, files>>

unregister_agent(c, p, s) ==
    /\ Free(c)
    /\ RoomToEnqueue
    /\ call' = [call EXCEPT ![c] =
                  IF HExists(store, AgentsKey(p), s)
                  THEN NewCall("unregister_agent", "hget", p, s)
                  ELSE Return(NewCall("unregister_agent", "hget", p, s), "not_found", s)]
    /\ UNCHANGED <<store, mon, clock, enq, files>>

unregister_agent_hget(c) ==
    /\ At(c, "unregister_agent", "hget")
    /\ LET k == AgentsKey(call[c].p)
       IN  call' = [call EXCEPT ![c].pc = "lrange",
                                ![c].a = IF HExists(store, k, call[c].s)
                                         THEN store[k][call[c].s].task_id ELSE "None"]
    /\ UNCHANGED <<store, mon, clock, enq, files>>

unregister_agent_lrange(c) ==
    /\ At(c, "unregister_agent", "lrange")
    /\ call' = [call EXCEPT ![c].pc = "cl_hgetall",
                            ![c].snap = LRange(store, TodosKey(call[c].p, call[c].s))]
    /\ UNCHANGED <<store, mon, clock, enq, files>>

unregister_agent_cl_hgetall(c) ==
    /\ At(c, "unregister_agent", "cl_hgetall")
    /\ call' = [call EXCEPT ![c] = _cleanup_dead_agent_hgetall(call[c])]
    /\ UNCHANGED <<store, mon, clock, enq, files>>

unregister_agent_cl_hdel_lock(c) ==
    /\ At(c, "unregister_agent", "cl_hdel_lock")
    /\ \E f \in call[c].lk :
         /\ store' = HDel(store, LocksKey(call[c].p), f)
         /\ call' = [call EXCEPT ![c] = _cleanup_dead_agent_hdel_lock(call[c], f)]
    /\ UNCHANGED <<mon, clock, enq, files>>

unregister_agent_cl_hdel_agent(c) ==
    /\ At(c, "unregister_agent", "cl_hdel_agent")
    /\ store' = HDel(store, AgentsKey(call[c].p), call[c].s)
    /\ call' = [call EXCEPT ![c].pc = "cl_del_messages"]
    /\ UNCHANGED <<mon, clock, enq, files>>

unregister_agent_cl_del_messages(c) ==
    /\ At(c, "unregister_agent", "cl_del_messages")
    /\ store' = Del(store, MessagesKey(call[c].p, call[c].s))
    /\ call' = [call EXCEPT ![c].pc = "cl_del_todos"]
    /\ UNCHANGED <<mon, clock, enq, files>>

unregister_agent_cl_del_todos(c) ==
    /\ At(c, "unregister_agent", "cl_del_todos")
    /\ store' = Del(store, TodosKey(call[c].p, call[c].s))
    /\ call' = [call EXCEPT ![c] =
                  EnterBroadcast([call[c] EXCEPT
                                     !.gone = LRange(store, TodosKey(call[c].p, call[c].s))],
                                 [Msg("agent_left", "", call[c].s, NoId, NoId, call[c].a)
                                     EXCEPT !.sum = TodoSummary(call[c].snap)],
                                 "", "return")]
    /\ UNCHANGED <<mon, clock, enq, files>>

unregister_agent_return(c) ==
    /\ At(c, "unregister_agent", "return")
    /\ call' = [call EXCEPT ![c] =
                  Return(call[c], "unregistered", TodoSummary(call[c].snap))]
    /\ UNCHANGED <<store, mon, clock, enq, files>>

(***************************************************************************)
(* _heartbeat_monitor: one tick is keys, then per project key hgetall, then *)
(* per session get of the heartbeat key and, when it is absent, the         *)
(* cleanup; then the task sleeps.                                           *)
(***************************************************************************)
\* keys("project:*:agents")
ProjectKeys(st) ==
    {k \in DOMAIN st : Len(k) >= 3 /\ k[1] = "project" /\ k[Len(k)] = "agents"}

\* project_key.split(":")[1]
ProjectIdOf(key) == <<key[2]>>

\* the loops' next iteration once a session is done with
NextItem(m) ==
    [m EXCEPT !.s = "", !.lk = {},
              !.pc = IF m.agents # {} THEN "get"
                     ELSE IF m.keys # {} THEN "hgetall" ELSE "sleep"]

_heartbeat_monitor_keys ==
    /\ mon.pc = "sleep"
    /\ LET ks == ProjectKeys(store)
       IN  mon' = [IdleMon EXCEPT !.keys = ks, !.err = mon.err, !.lost = mon.lost,
                                  !.pc = IF ks = {} THEN "sleep" ELSE "hgetall"]
    /\ UNCHANGED <<store, call, clock, enq, files>>

_heartbeat_monitor_hgetall ==
    /\ mon.pc = "hgetall"
    /\ \E key \in mon.keys :
         mon' = NextItem([mon EXCEPT !.keys = mon.keys \ {key}, !.key = key,
                                     !.p = ProjectIdOf(key),
                                     !.agents = HKeys(store, key)])
    /\ UNCHANGED <<store, call, clock, enq, files>>

_heartbeat_monitor_get ==
    /\ mon.pc = "get"
    /\ \E s \in mon.agents :
         LET m == [mon EXCEPT !.agents = mon.agents \ {s}, !.s = s]
         IN  mon' = IF Has(store, HeartbeatKey(mon.p, s))
                    THEN NextItem(m)
                    ELSE [m EXCEPT !.pc = "cl_hgetall"]
    /\ UNCHANGED <<store, call, clock, enq, files>>

_heartbeat_monitor_cl_hgetall ==
    /\ mon.pc = "cl_hgetall"
    /\ mon' = _cleanup_dead_agent_hgetall(mon)
    /\ UNCHANGED <<store, call, clock, enq, files>>

_heartbeat_monitor_cl_hdel_lock ==
    /\ mon.pc = "cl_hdel_lock"
    /\ \E f \in mon.lk :
         /\ store' = HDel(store, LocksKey(mon.p), f)
         /\ mon' = _cleanup_dead_agent_hdel_lock(mon, f)
    /\ UNCHANGED <<call, clock, enq, files>>

_heartbeat_monitor_cl_hdel_agent ==
    /\ mon.pc = "cl_hdel_agent"
    /\ store' = HDel(store, AgentsKey(mon.p), mon.s)
    /\ mon' = [mon EXCEPT !.pc = "cl_del_messages"]
    /\ UNCHANGED <<call, clock, enq, files>>

_heartbeat_monitor_cl_del_messages ==
    /\ mon.pc = "cl_del_messages"
    /\ store' = Del(store, MessagesKey(mon.p, mon.s))
    /\ mon' = [mon EXCEPT !.pc = "cl_del_todos"]
    /\ UNCHANGED <<call, clock, enq, files>>

_heartbeat_monitor_cl_del_todos ==
    /\ mon.pc = "cl_del_todos"
    /\ store' = Del(store, TodosKey(mon.p, mon.s))
    /\ mon' = NextItem(mon)
    /\ UNCHANGED <<call, clock, enq, files>>

\* A store call of the tick raises: the except clause of lines 84-86 with the loop
\* left instead of continued.
_heartbeat_monitor_except_break ==
    /\ mon.err < MaxFaults
    /\ mon' = [mon EXCEPT !.pc = "stopped", !.err = mon.err + 1]
    /\ UNCHANGED <<store, call, clock, enq, files>>

\* A store call of the tick raises: the error is logged, the task sleeps and the
\* loop starts over.  err counts the errors; lost is bookkeeping of the model: the
\* session whose cleanup the error broke off while its agent record was there.
_heartbeat_monitor_except ==
    /\ mon.err < MaxFaults
    /\ mon' = [IdleMon EXCEPT
                 !.err = mon.err + 1,
                 !.lost = IF mon.pc \in {"cl_hgetall", "cl_hdel_lock", "cl_hdel_agent"}
                             /\ HExists(store, AgentsKey(mon.p), mon.s)
                          THEN mon.s ELSE mon.lost]
    /\ UNCHANGED <<store, call, clock, enq, files>>

MonitorNext ==
    \/ _heartbeat_monitor_keys
    \/ _heartbeat_monitor_hgetall
    \/ _heartbeat_monitor_get
    \/ _heartbeat_monitor_cl_hgetall
    \/ _heartbeat_monitor_cl_hdel_lock
    \/ _heartbeat_monitor_cl_hdel_agent
    \/ _heartbeat_monitor_cl_del_messages
    \/ _heartbeat_monitor_cl_del_todos

(***************************************************************************)
(* update_todo.  id is the todo_id, a the new status, n the time read for   *)
(* completed_at, snap the list read by lrange.  The list is replaced by delete and  *)
(* one rpush of all items.                                                  *)
(***************************************************************************)
\* the loop of lines 254-260 with the test of the id dropped
new_todos_every_item(todos, todo_id, status, now) ==
    [i \in 1..Len(todos) |->
       IF status = "completed"
       THEN [todos[i] EXCEPT !.status = status, !.completed_at = now]
       ELSE [todos[i] EXCEPT !.status = status]]

new_todos(todos, todo_id, status, now) ==
    [i \in 1..Len(todos) |->
       IF todos[i].id # todo_id THEN todos[i]
       ELSE IF status = "completed"
       THEN [todos[i] EXCEPT !.status = status, !.completed_at = now]
       ELSE [todos[i] EXCEPT !.status = status]]

updated(todos, todo_id) == \E i \in 1..Len(todos) : todos[i].id = todo_id

update_todo(c, p, s, todo_id, status) ==
    /\ Free(c)
    /\ RoomToEnqueue
    /\ LET todos == LRange(store, TodosKey(p, s))
           now == IF status = "completed" /\ updated(todos, todo_id) THEN clock + 1 ELSE clock
           cr == [NewCall("update_todo", "delete", p, s) EXCEPT
                     !.id = todo_id, !.a = status, !.n = now, !.snap = todos]
       IN  /\ call' = [call EXCEPT ![c] =
                          IF updated(todos, todo_id) THEN cr ELSE [cr EXCEPT !.pc = "setex"]]
           /\ clock' = now
    /\ UNCHANGED <<store, mon, enq, files>>

update_todo_delete(c) ==
    /\ At(c, "update_todo", "delete")
    /\ store' = Del(store, TodosKey(call[c].p, call[c].s))
    /\ call' = [call EXCEPT ![c].pc = "rpush",
                            ![c].gone = LRange(store, TodosKey(call[c].p, call[c].s))]
    /\ UNCHANGED <<mon, clock, enq, files>>

update_todo_rpush(c) ==
    /\ At(c, "update_todo", "rpush")
    /\ LET k == TodosKey(call[c].p, call[c].s)
       IN  store' = Put(store, k, LRange(store, k) \o
                                    new_todos(call[c].snap, call[c].id, call[c].a, call[c].n))
    /\ call' = [call EXCEPT ![c] =
                  IF call[c].a = "completed"
                  THEN EnterBroadcast(call[c],
                                      Msg("todo_completed", "", call[c].s, NoId, NoId, ""),
                                      "", "setex")
                  ELSE [call[c] EXCEPT !.pc = "setex"]]
    /\ UNCHANGED <<mon, clock, enq, files>>

update_todo_setex(c) ==
    /\ At(c, "update_todo", "setex")
    /\ store' = _update_heartbeat(store, call[c].p, call[c].s)
    /\ call' = [call EXCEPT ![c] =
                  Return([call[c] EXCEPT !.armed = TRUE],
                         IF updated(call[c].snap, call[c].id) THEN "updated" ELSE "not_found",
                         call[c].id)]
    /\ UNCHANGED <<mon, clock, enq, files>>

(***************************************************************************)
(* register_interface and query_interface.  An interface name is the        *)
(* sequence of its characters; id is the interface_name, a the definition,  *)
(* f the file_path.  The event carries the definition as its content.       *)
(***************************************************************************)
interface_data(s, definition, file_path) ==
    [definition |-> definition, registered_by |-> s, file_path |-> file_path]

\* register_interface with hsetnx for hset: a name that is registered keeps its entry
register_interface_hsetnx(c, p, s, interface_name, definition, file_path) ==
    /\ Free(c)
    /\ RoomToEnqueue
    /\ store' = IF HExists(store, InterfacesKey(p), interface_name) THEN store
                ELSE HSet(store, InterfacesKey(p), interface_name,
                          interface_data(s, definition, file_path))
    /\ call' = [call EXCEPT ![c] =
                  EnterBroadcast([NewCall("register_interface", "hset", p, s) EXCEPT
                                     !.id = interface_name, !.a = definition,
                                     !.f = file_path],
                                 Msg("interface_registered", "", s, NoId, NoId, definition),
                                 s, "setex")]
    /\ UNCHANGED <<mon, clock, enq, files>>

register_interface(c, p, s, interface_name, definition, file_path) ==
    /\ Free(c)
    /\ RoomToEnqueue
    /\ store' = HSet(store, InterfacesKey(p), interface_name,
                     interface_data(s, definition, file_path))
    /\ call' = [call EXCEPT ![c] =
                  EnterBroadcast([NewCall("register_interface", "hset", p, s) EXCEPT
                                     !.id = interface_name, !.a = definition,
                                     !.f = file_path],
                                 Msg("interface_registered", "", s, NoId, NoId, definition),
                                 s, "setex")]
    /\ UNCHANGED <<mon, clock, enq, files>>

register_interface_setex(c) ==
    /\ At(c, "register_interface", "setex")
    /\ store' = _update_heartbeat(store, call[c].p, call[c].s)
    /\ call' = [call EXCEPT ![c] =
                  Return([call[c] EXCEPT !.armed = TRUE], "registered", call[c].id)]
    /\ UNCHANGED <<mon, clock, enq, files>>

\* str.lower() of one character and of a name
LowerChar(ch) == IF ch = "A" THEN "a" ELSE IF ch = "B" THEN "b" ELSE ch

lower(name) == [i \in 1..Len(name) |-> LowerChar(name[i])]

\* `sub in str`
Contains(sub, str) ==
    \E i \in 0..(Len(str) - Len(sub)) : SubSeq(str, i + 1, i + Len(sub)) = sub

\* the similar names found by comparing the names as they are
similar_case_sensitive(all_interfaces, interface_name) ==
    {name \in all_interfaces : Contains(interface_name, name)}

similar(all_interfaces, interface_name) ==
    {name \in all_interfaces : Contains(lower(interface_name), lower(name))}

\* the call returns the stored record, which carries no status of its own
query_interface(c, p, interface_name) ==
    /\ Free(c)
    /\ LET cr == [NewCall("query_interface", "hkeys", p, "") EXCEPT !.id = interface_name]
       IN  call' = [call EXCEPT ![c] =
                      IF HExists(store, InterfacesKey(p), interface_name)
                      THEN Return(cr, "found", store[InterfacesKey(p)][interface_name])
                      ELSE cr]
    /\ UNCHANGED <<store, mon, clock, enq, files>>

query_interface_hkeys(c) ==
    /\ At(c, "query_interface", "hkeys")
    /\ call' = [call EXCEPT ![c] =
                  Return(call[c], "not_found",
                         similar(HKeys(store, InterfacesKey(call[c].p)), call[c].id))]
    /\ UNCHANGED <<store, mon, clock, enq, files>>

(***************************************************************************)
(* broadcast_message.  rem holds the agents read by hkeys that are still to *)
(* be sent to, n the local count; a is the message_type, which travels with *)
(* the content.                                                             *)
(***************************************************************************)
\* broadcast_message with the test `agent_session != session_name` of line 641 dropped
broadcast_message_to_all(c, p, s, mt, content) ==
    /\ Free(c)
    /\ RoomToEnqueue
    /\ LET all_agents == HKeys(store, AgentsKey(p))
           cr == [NewCall("broadcast_message", "rpush", p, s) EXCEPT
                     !.a = mt, !.ev = Msg("broadcast", s, "", NoId, NoId, content),
                     !.rcpt = all_agents, !.rem = all_agents]
       IN  call' = [call EXCEPT ![c] = IF cr.rem = {} THEN [cr EXCEPT !.pc = "setex"] ELSE cr]
    /\ UNCHANGED <<store, mon, clock, enq, files>>

broadcast_message(c, p, s, mt, content) ==
    /\ Free(c)
    /\ RoomToEnqueue
    /\ LET all_agents == HKeys(store, AgentsKey(p))
           cr == [NewCall("broadcast_message", "rpush", p, s) EXCEPT
                     !.a = mt, !.ev = Msg("broadcast", s, "", NoId, NoId, content),
                     !.rcpt = all_agents, !.rem = all_agents \ {s}]
       IN  call' = [call EXCEPT ![c] = IF cr.rem = {} THEN [cr EXCEPT !.pc = "setex"] ELSE cr]
    /\ UNCHANGED <<store, mon, clock, enq, files>>

broadcast_message_rpush(c) ==
    /\ At(c, "broadcast_message", "rpush")
    /\ \E a \in call[c].rem :
         /\ store' = PushStore(MessagesKey(call[c].p, a), call[c].ev)
         /\ enq' = enq + 1
         /\ call' = [call EXCEPT ![c].rem = call[c].rem \ {a},
                                 ![c].n = call[c].n + 1,
                                 ![c].sent = call[c].sent \cup {<<a, enq + 1>>},
                                 ![c].pc = IF call[c].rem = {a} THEN "setex" ELSE "rpush"]
    /\ UNCHANGED <<mon, clock, files>>

broadcast_message_setex(c) ==
    /\ At(c, "broadcast_message", "setex")
    /\ store' = _update_heartbeat(store, call[c].p, call[c].s)
    /\ call' = [call EXCEPT ![c] =
                  Return([call[c] EXCEPT !.armed = TRUE], "broadcast_sent", call[c].n)]
    /\ UNCHANGED <<mon, clock, enq, files>>

(***************************************************************************)
(* Messaging in one project, both sessions registered: queries, responses   *)
(* and reads.                                                               *)
(***************************************************************************)
NextQuery ==
    \/ \E c \in Slots, s \in Sessions, t \in Sessions, w \in {"wait", "nowait"} :
         query_agent(c, P1, s, t, w)
    \/ \E c \in Slots : query_agent_rpush(c)
    \/ \E c \in Slots : query_agent_setex(c)
    \/ \E c \in Slots : _wait_for_response_lrange(c)
    \/ \E c \in Slots : _wait_for_response_lrem(c)
    \/ \E c \in Slots : _wait_for_response_timeout(c)
    \/ \E c \in Slots, s \in Sessions, t \in Sessions, id \in QueryIds :
         respond_to_query(c, P1, s, t, id, "R")
    \/ \E c \in Slots : respond_to_query_setex(c)

SpecQuery == InitRegistered /\ [][NextQuery]_vars

\* waiting queries of one session to the other, responses, and the reads of s1
NextMsg ==
    \/ \E c \in Slots, s \in Sessions : \E t \in Sessions \ {s} :
         query_agent(c, P1, s, t, "wait")
    \/ \E c \in Slots : query_agent_rpush(c)
    \/ \E c \in Slots : query_agent_setex(c)
    \/ \E c \in Slots : _wait_for_response_lrange(c)
    \/ \E c \in Slots : _wait_for_response_lrem(c)
    \/ \E c \in Slots : _wait_for_response_timeout(c)
    \/ \E c \in Slots, s \in Sessions, t \in Sessions, id \in QueryIds :
         respond_to_query(c, P1, s, t, id, "R")
    \/ \E c \in Slots : respond_to_query_setex(c)
    \/ \E c \in Slots : check_messages(c, P1, "s1")
    \/ \E c \in Slots : check_messages_delete(c)
    \/ \E c \in Slots : check_messages_setex(c)

SpecMsg == InitRegistered /\ [][NextMsg]_vars

\* the steps that carry on the call in slot c
StepsWait(c) ==
    \/ query_agent_rpush(c)
    \/ query_agent_setex(c)
    \/ _wait_for_response_lrange(c)
    \/ _wait_for_response_lrem(c)
    \/ _wait_for_response_timeout(c)
    \/ respond_to_query_setex(c)

\* queries of s1 to s2 and to s3, which never registered, and responses
NextWait ==
    \/ \E c \in Slots, t \in {"s2", "s3"}, w \in {"wait", "nowait"} :
         query_agent(c, P1, "s1", t, w)
    \/ \E c \in Slots, s \in Sessions, id \in QueryIds :
         \E t \in Sessions \ {s} : respond_to_query(c, P1, s, t, id, "R")
    \/ \E c \in Slots : StepsWait(c)

\* The event loop carries on every call whose store call has completed, and time
\* passes while a call sleeps.
SpecWait == InitRegistered /\ [][NextWait]_vars /\ \A c \in Slots : WF_vars(StepsWait(c))

(***************************************************************************)
(* Completion: heartbeats and task completion in one project; s3 never     *)
(* registered.                                                              *)
(***************************************************************************)
NextDone ==
    \/ \E c \in Slots, s \in Sessions \cup {"s3"} : heartbeat(c, P1, s)
    \/ \E c \in Slots, s \in Sessions \cup {"s3"} : mark_task_completed(c, P1, s, "T1")
    \/ \E c \in Slots : mark_task_completed_hget(c)
    \/ \E c \in Slots : mark_task_completed_hset(c)
    \/ \E s \in Sessions \cup {"s3"} : HeartbeatExpires(P1, s)

SpecDone == InitRegistered /\ [][NextDone]_vars

(***************************************************************************)
(* Liveness: registration and announcements in the projects "p1" and       *)
(* "p1:x", heartbeats running out, and the reaper.                          *)
(***************************************************************************)
Projects == {P1, P1X}

\* the steps that carry on the call in slot c1
StepsReap ==
    \/ register_agent_setex("c1")
    \/ register_agent_del_todos("c1")
    \/ register_agent_hgetall("c1")
    \/ _broadcast_event_hkeys("c1")
    \/ _broadcast_event_rpush("c1")
    \/ announce_file_change_hset("c1")
    \/ announce_file_change_lpush("c1")
    \/ announce_file_change_ltrim("c1")
    \/ announce_file_change_setex("c1")

NextReap ==
    \/ \E ps \in {<<P1, "s1">>, <<P1, "s2">>, <<P1X, "s1">>} :
         register_agent("c1", ps[1], ps[2], "T1")
    \/ \E f \in Paths : announce_file_change("c1", P1, "s1", f, "create")
    \/ StepsReap
    \/ \E p \in Projects, s \in Sessions : HeartbeatExpires(p, s)
    \/ MonitorNext

\* The event loop runs every task that is ready: a call that has started is carried
\* on, and so is the reaper.
SpecReap == Init /\ [][NextReap]_vars /\ WF_vars(MonitorNext) /\ WF_vars(StepsReap)

(***************************************************************************)
(* Locks: announcements in one project, both sessions registered, with no  *)
(* release and no cleanup.                                                  *)
(***************************************************************************)
NextLock ==
    \/ \E c \in Slots, s \in Sessions, f \in Paths, ct \in {"create", "modify"} :
         announce_file_change(c, P1, s, f, ct)
    \/ \E c \in Slots : announce_file_change_hset(c)
    \/ \E c \in Slots : announce_file_change_lpush(c)
    \/ \E c \in Slots : announce_file_change_ltrim(c)
    \/ \E c \in Slots : _broadcast_event_hkeys(c)
    \/ \E c \in Slots : _broadcast_event_rpush(c)
    \/ \E c \in Slots : announce_file_change_setex(c)

SpecLock == InitRegistered /\ [][NextLock]_vars

\* The state after KeepChanges announcements of s1 whose locks have been released
\* and whose events have been read: the change log is full.
InitFullLog ==
    /\ store = Put(Registered(P1, Sessions), ChangesKey(P1),
                   [i \in 1..KeepChanges |->
                      [session |-> "s1", file_path |-> "a.ts", change_type |-> "create"]])
    /\ call = [c \in Slots |-> Idle]
    /\ mon = IdleMon
    /\ clock = 0
    /\ enq = 0
    /\ files = {}

SpecFullLog == InitFullLog /\ [][NextLock]_vars

(***************************************************************************)
(* Releases: announcements and releases in one project, both sessions      *)
(* registered, s1 holding the lock of the path after one announcement that  *)
(* s2 has read.                                                             *)
(***************************************************************************)
InitLocked ==
    /\ store = LPush(HSet(Registered(P1, Sessions), LocksKey(P1), "a.ts",
                          [session |-> "s1", change_type |-> "create"]),
                     ChangesKey(P1),
                     [session |-> "s1", file_path |-> "a.ts", change_type |-> "create"])
    /\ call = [c \in Slots |-> Idle]
    /\ mon = IdleMon
    /\ clock = 0
    /\ enq = 0
    /\ files = {}

NextRelease ==
    \/ \E c \in Slots, s \in Sessions, f \in Paths : release_file_lock(c, P1, s, f)
    \/ \E c \in Slots : release_file_lock_hdel(c)
    \/ \E c \in Slots : release_file_lock_setex(c)
    \/ \E c \in Slots, s \in Sessions, f \in Paths : announce_file_change(c, P1, s, f, "modify")
    \/ \E c \in Slots : announce_file_change_hset(c)
    \/ \E c \in Slots : announce_file_change_lpush(c)
    \/ \E c \in Slots : announce_file_change_ltrim(c)
    \/ \E c \in Slots : _broadcast_event_hkeys(c)
    \/ \E c \in Slots : _broadcast_event_rpush(c)
    \/ \E c \in Slots : announce_file_change_setex(c)

SpecRelease == InitLocked /\ [][NextRelease]_vars

(***************************************************************************)
(* Leaving: s1, which holds the lock of the path and has two todos, one of  *)
(* them completed, unregisters while s2 sends it queries.  s1 makes no      *)
(* other call.                                                              *)
(***************************************************************************)
InitWorking ==
    /\ \E st \in {RPush(LPush(HSet(Registered(P1, Sessions), LocksKey(P1), "a.ts",
                                   [session |-> "s1", change_type |-> "create"]),
                              ChangesKey(P1),
                              [session |-> "s1", file_path |-> "a.ts",
                               change_type |-> "create"]),
                        TodosKey(P1, "s1"),
                        [id |-> 1, status |-> "completed", completed_at |-> 2, eq |-> 0])} :
         store = RPush(st, TodosKey(P1, "s1"),
                       [id |-> 2, status |-> "pending", completed_at |-> NoTime, eq |-> 0])
    /\ call = [c \in Slots |-> Idle]
    /\ mon = IdleMon
    /\ clock = 0
    /\ enq = 0
    /\ files = {}

NextUnreg ==
    \/ unregister_agent("c1", P1, "s1")
    \/ unregister_agent_hget("c1")
    \/ unregister_agent_lrange("c1")
    \/ unregister_agent_cl_hgetall("c1")
    \/ unregister_agent_cl_hdel_lock("c1")
    \/ unregister_agent_cl_hdel_agent("c1")
    \/ unregister_agent_cl_del_messages("c1")
    \/ unregister_agent_cl_del_todos("c1")
    \/ _broadcast_event_hkeys("c1")
    \/ _broadcast_event_rpush("c1")
    \/ unregister_agent_return("c1")
    \/ \E w \in {"wait", "nowait"} : query_agent("c2", P1, "s2", "s1", w)
    \/ query_agent_rpush("c2")
    \/ query_agent_setex("c2")
    \/ _wait_for_response_lrange("c2")
    \/ _wait_for_response_timeout("c2")

SpecUnreg == InitWorking /\ [][NextUnreg]_vars

(***************************************************************************)
(* Joining: registrations, first and repeated, in one project that starts   *)
(* empty, and the todos of s1.                                              *)
(***************************************************************************)
NextReg ==
    \/ \E c \in Slots, s \in Sessions : register_agent(c, P1, s, "T1")
    \/ \E c \in Slots : register_agent_setex(c)
    \/ \E c \in Slots : register_agent_del_todos(c)
    \/ \E c \in Slots : _broadcast_event_hkeys(c)
    \/ \E c \in Slots : _broadcast_event_rpush(c)
    \/ \E c \in Slots : register_agent_hgetall(c)
    \/ \E c \in Slots : add_todo(c, P1, "s1")
    \/ \E c \in Slots : add_todo_setex(c)

SpecReg == Init /\ [][NextReg]_vars

(***************************************************************************)
(* Broadcasts: s1 and s3 broadcast in one project in which s1 and s2 are    *)
(* registered and s3 registers.                                             *)
(***************************************************************************)
NextCast ==
    \/ \E c \in Slots, s \in {"s1", "s3"} : broadcast_message(c, P1, s, "info", "hello")
    \/ \E c \in Slots : broadcast_message_rpush(c)
    \/ \E c \in Slots : broadcast_message_setex(c)
    \/ \E c \in Slots : register_agent(c, P1, "s3", "T1")
    \/ \E c \in Slots : register_agent_setex(c)
    \/ \E c \in Slots : register_agent_del_todos(c)
    \/ \E c \in Slots : _broadcast_event_hkeys(c)
    \/ \E c \in Slots : _broadcast_event_rpush(c)
    \/ \E c \in Slots : register_agent_hgetall(c)

SpecCast == InitRegistered /\ [][NextCast]_vars

(***************************************************************************)
(* Todos: s1, which has two todos, updates them, one call after the other,  *)
(* while no other session makes a call.                                     *)
(***************************************************************************)
Statuses == {"pending", "in_progress", "completed", "blocked"}

NextTodo ==
    \/ \E id \in 1..3, status \in Statuses : update_todo("c1", P1, "s1", id, status)
    \/ update_todo_delete("c1")
    \/ update_todo_rpush("c1")
    \/ _broadcast_event_hkeys("c1")
    \/ _broadcast_event_rpush("c1")
    \/ update_todo_setex("c1")

SpecTodo == InitWorking /\ [][NextTodo]_vars

(***************************************************************************)
(* Interfaces: both sessions register the interfaces "Ab" and "b", first    *)
(* and again, and the names are looked up by calls in slot c2.              *)
(***************************************************************************)
InterfaceNames == {<<"A", "b">>, <<"b">>}
Lookups == {<<>>, <<"a", "B">>, <<"b">>}

NextIface ==
    \/ \E c \in Slots, s \in Sessions, name \in InterfaceNames, d \in {"d1", "d2"} :
         register_interface(c, P1, s, name, d, "a.ts")
    \/ \E c \in Slots : _broadcast_event_hkeys(c)
    \/ \E c \in Slots : _broadcast_event_rpush(c)
    \/ \E c \in Slots : register_interface_setex(c)
    \/ \E name \in Lookups : query_interface("c2", P1, name)
    \/ query_interface_hkeys("c2")

SpecIface == InitRegistered /\ [][NextIface]_vars

(***************************************************************************)
(* Failing ticks: both sessions registered in one project and s1 holding a  *)
(* lock, heartbeats set and running out, and a reaper some of whose store   *)
(* calls fail.                                                              *)
(***************************************************************************)
NextFault ==
    \/ \E s \in Sessions : heartbeat("c1", P1, s)
    \/ \E s \in Sessions : HeartbeatExpires(P1, s)
    \/ MonitorNext
    \/ _heartbeat_monitor_except

\* The event loop runs the reaper task whenever its store call or sleep is over.
SpecFault == InitLocked /\ [][NextFault]_vars /\ WF_vars(MonitorNext)

(***************************************************************************)
(* The todo list of s1 under concurrent calls: s1 adds items and updates    *)
(* them, the calls overlapping.  An update starts only while the list holds *)
(* no more items than were added.                                           *)
(***************************************************************************)
NextTodos ==
    \/ \E c \in Slots : add_todo(c, P1, "s1")
    \/ \E c \in Slots : add_todo_setex(c)
    \/ \E c \in Slots, id \in 1..2, status \in {"in_progress", "completed"} :
         /\ Len(LRange(store, TodosKey(P1, "s1"))) <= MaxEnq
         /\ update_todo(c, P1, "s1", id, status)
    \/ \E c \in Slots : update_todo_delete(c)
    \/ \E c \in Slots : update_todo_rpush(c)
    \/ \E c \in Slots : _broadcast_event_hkeys(c)
    \/ \E c \in Slots : _broadcast_event_rpush(c)
    \/ \E c \in Slots : update_todo_setex(c)

SpecTodos == InitRegistered /\ [][NextTodos]_vars

(***************************************************************************)
(* Leaving and completing: s1 unregisters while its mark_task_completed     *)
(* call runs.                                                               *)
(***************************************************************************)
NextLeaveDone ==
    \/ unregister_agent("c1", P1, "s1")
    \/ unregister_agent_hget("c1")
    \/ unregister_agent_lrange("c1")
    \/ unregister_agent_cl_hgetall("c1")
    \/ unregister_agent_cl_hdel_lock("c1")
    \/ unregister_agent_cl_hdel_agent("c1")
    \/ unregister_agent_cl_del_messages("c1")
    \/ unregister_agent_cl_del_todos("c1")
    \/ _broadcast_event_hkeys("c1")
    \/ _broadcast_event_rpush("c1")
    \/ unregister_agent_return("c1")
    \/ \E s \in Sessions : mark_task_completed("c2", P1, s, "T1")
    \/ mark_task_completed_hget("c2")
    \/ mark_task_completed_hset("c2")

SpecLeaveDone == InitWorking /\ [][NextLeaveDone]_vars

(***************************************************************************)
(* Two cleanups: the heartbeat of s1 runs out and the reaper works while s1 *)
(* unregisters and s2 announces a change of the path that s1 had locked.    *)
(***************************************************************************)
NextCleanups ==
    \/ unregister_agent("c1", P1, "s1")
    \/ unregister_agent_hget("c1")
    \/ unregister_agent_lrange("c1")
    \/ unregister_agent_cl_hgetall("c1")
    \/ unregister_agent_cl_hdel_lock("c1")
    \/ unregister_agent_cl_hdel_agent("c1")
    \/ unregister_agent_cl_del_messages("c1")
    \/ unregister_agent_cl_del_todos("c1")
    \/ unregister_agent_return("c1")
    \/ \E f \in Paths : announce_file_change("c2", P1, "s2", f, "modify")
    \/ announce_file_change_hset("c2")
    \/ announce_file_change_lpush("c2")
    \/ announce_file_change_ltrim("c2")
    \/ announce_file_change_setex("c2")
    \/ \E c \in Slots : _broadcast_event_hkeys(c)
    \/ \E c \in Slots : _broadcast_event_rpush(c)
    \/ HeartbeatExpires(P1, "s1")
    \/ MonitorNext

SpecCleanups == InitWorking /\ [][NextCleanups]_vars

(***************************************************************************)
(* Claims about file locks.                                                 *)
(***************************************************************************)
Announced(c, status) ==
    /\ call[c].op = "announce_file_change"
    /\ call[c].pc = "done"
    /\ call[c].ret.status = status

\* C1: of the announce_file_change calls made by different sessions on the same
\* (project, path), with no release or cleanup in between, at most one returns
\* 'locked'.
C1_AtMostOneLocked ==
    \A c, d \in Slots :
        (/\ Announced(c, "locked") /\ Announced(d, "locked")
         /\ call[c].p = call[d].p /\ call[c].f = call[d].f)
        => call[c].s = call[d].s

\* C3: every entry of a project's locks hash names as its session a session that
\* is present in that project's agents hash.
C3_LockOwnerRegistered ==
    \A p \in Projects : \A f \in HKeys(store, LocksKey(p)) :
        HExists(store, AgentsKey(p), store[LocksKey(p)][f].session)

\* C10: an announce_file_change by s that reads a lock held by another session t
\* returns 'conflict' with that lock as lock_info and changes nothing in the store.
C10_ConflictChangesNothing ==
    [][\A c \in Slots :
          (/\ Free(c) /\ call'[c] # call[c]
           /\ call'[c].op = "announce_file_change"
           /\ HExists(store, LocksKey(call'[c].p), call'[c].f)
           /\ store[LocksKey(call'[c].p)][call'[c].f].session # call'[c].s)
          => (/\ call'[c].pc = "done"
              /\ call'[c].ret.status = "conflict"
              /\ call'[c].ret.val = store[LocksKey(call'[c].p)][call'[c].f]
              /\ call'[c].ret.val.session # call'[c].s
              /\ store' = store
              /\ enq' = enq)]_vars

\* a call has returned 'conflict' while the other session still holds the lock
C10_Witness ==
    \E c \in Slots :
        /\ Announced(c, "conflict")
        /\ HExists(store, LocksKey(call[c].p), call[c].f)
        /\ store[LocksKey(call[c].p)][call[c].f] = call[c].ret.val
        /\ call[c].ret.val.session # call[c].s

\* the (path, owner) pairs of the locks hash of project p
LockPairs(st, p) == {<<f, st[LocksKey(p)][f].session>> : f \in HKeys(st, LocksKey(p))}

\* the events of type ty about session s that call c has pushed into the inbox of a
\* and that lie there
EventsIn(st, c, a, ty, s) ==
    LET box == LRange(st, MessagesKey(call[c].p, a))
    IN  {i \in 1..Len(box) : /\ <<a, box[i].eq>> \in call[c].sent
                             /\ box[i].type = ty /\ box[i].sess = s}

\* C23: the list of recent changes never holds more than 100 entries, the states
\* between the store calls of running announce_file_change calls included.
C23_ChangesCapped == Len(LRange(store, ChangesKey(P1))) <= KeepChanges
\* C11: release_file_lock(p, s, path) returns 'not_locked' on an unlocked path and
\* 'error' on a path locked by another session, changing nothing and enqueuing
\* nothing; on a path locked by s it deletes the lock, enqueues a
\* file_lock_released event to every other registered agent and returns 'released';
\* the lock it removes is never another session's.
C11_ReleaseOnlyByOwner ==
    [][\A c \in Slots :
          LET p == call'[c].p
              s == call'[c].s
              f == call'[c].f
          IN  /\ (/\ Free(c) /\ call'[c] # call[c] /\ call'[c].op = "release_file_lock")
                 => /\ store' = store /\ enq' = enq
                    /\ ~HExists(store, LocksKey(p), f)
                         => (call'[c].pc = "done" /\ call'[c].ret.status = "not_locked")
                    /\ (HExists(store, LocksKey(p), f) /\ <<f, s>> \notin LockPairs(store, p))
                         => (call'[c].pc = "done" /\ call'[c].ret.status = "error")
                    /\ <<f, s>> \in LockPairs(store, p) => call'[c].pc = "hdel"
              /\ (At(c, "release_file_lock", "hdel") /\ call'[c] # call[c])
                 => /\ LockPairs(store, p) \ LockPairs(store', p) \subseteq {<<f, s>>}
                    /\ ~HExists(store', LocksKey(p), f)
              /\ (At(c, "release_file_lock", "setex") /\ call'[c].pc = "done")
                 => /\ call'[c].ret.status = "released"
                    /\ {x[1] : x \in call[c].sent} = call[c].rcpt \ {s}
                    /\ \A a \in call[c].rcpt \ {s} :
                          Cardinality(EventsIn(store, c, a, "file_lock_released", s)) = 1]_vars

\* C12: an announce_file_change by s on a path whose lock s holds is let through
\* (it is no conflict) and returns 'locked', and when it returns the locks hash
\* holds for that path the one lock owned by s, as before the call; its write
\* leaves the locks of the other paths as they were.
C12_ReannounceIdempotent ==
    [][\A c \in Slots :
          LET p == call'[c].p
              s == call'[c].s
              f == call'[c].f
          IN  /\ (/\ Free(c) /\ call'[c] # call[c]
                  /\ call'[c].op = "announce_file_change"
                  /\ <<f, s>> \in LockPairs(store, p))
                 => (call'[c].pc = "hset" /\ call'[c].own /\ store' = store)
              /\ (/\ At(c, "announce_file_change", "hset") /\ call'[c].pc = "lpush"
                  /\ call[c].own)
                 => {x \in LockPairs(store', p) : x[1] # f}
                      = {x \in LockPairs(store, p) : x[1] # f}
              /\ (/\ call[c].op = "announce_file_change" /\ call[c].own
                  /\ ~Free(c) /\ call'[c].pc = "done")
                 => (/\ call'[c].ret.status = "locked"
                     /\ {x \in LockPairs(store', p) : x[1] = f} = {<<f, s>>})]_vars

(***************************************************************************)
(* Claims about register_agent.                                             *)
(***************************************************************************)
Registers(c) ==
    /\ ~Free(c)
    /\ call'[c].op = "register_agent"
    /\ call'[c].pc = "done"
    /\ call'[c].ret.status = "registered"

\* the items of list k that were pushed before call c began
FromBefore(st, k, c) == {i \in 1..Len(LRange(st, k)) : LRange(st, k)[i].eq <= call[c].enq0}

\* C16: when register_agent(p, s, ...) returns, the agents hash holds the record of
\* s with status 'active', and neither the todo list nor the inbox of s holds
\* anything that was there before the call.
C16_RegisterWipes ==
    [][\A c \in Slots :
          Registers(c)
          => LET p == call[c].p
                 s == call[c].s
             IN  /\ HExists(store', AgentsKey(p), s)
                 /\ store'[AgentsKey(p)][s].status = "active"
                 /\ FromBefore(store', TodosKey(p, s), c) = {}
                 /\ FromBefore(store', MessagesKey(p, s), c) = {}]_vars

\* C17: when register_agent(p, s, ...) returns it has enqueued one agent_joined
\* event about s into the inbox of every other session that was in the agents hash
\* when the event was broadcast and none into the inbox of s, and its
\* other_active_agents are the sessions of the agents hash other than s.
C17_JoinedToTheOthers ==
    [][\A c \in Slots :
          Registers(c)
          => LET s == call[c].s
             IN  /\ s \in call[c].rcpt
                 /\ {x[1] : x \in call[c].sent} = call[c].rcpt \ {s}
                 /\ Cardinality(call[c].sent) = Cardinality(call[c].rcpt \ {s})
                 /\ \A a \in call[c].rcpt \ {s} :
                       Cardinality(EventsIn(store', c, a, "agent_joined", s)) = 1
                 /\ call'[c].ret.val = HKeys(store', AgentsKey(call[c].p)) \ {s}]_vars

\* the first agent of the project has registered and got no other agents, and the
\* second has registered, got the first, and its event lies in the first's inbox
C17_Witness ==
    \E c, d \in Slots :
        /\ call[c].op = "register_agent" /\ call[c].pc = "done"
        /\ call[c].ret.val = {} /\ call[c].sent = {}
        /\ call[d].op = "register_agent" /\ call[d].pc = "done"
        /\ call[d].ret.val = {call[c].s} /\ call[d].s # call[c].s
        /\ EventsIn(store, d, call[c].s, "agent_joined", call[d].s) # {}

(***************************************************************************)
(* Claims about unregister_agent.                                           *)
(***************************************************************************)
Unregistered(c) ==
    /\ call[c].op = "unregister_agent"
    /\ call[c].pc = "done"
    /\ call[c].ret.status = "unregistered"

\* C13: when unregister_agent(p, s) returns 'unregistered', s making no other call,
\* s is absent from the agents hash, no lock names s, and the inbox and the todo
\* list of s do not exist.
C13_UnregisteredLeavesNothing ==
    [][\A c \in Slots :
          (~Free(c) /\ Unregistered(c)')
          => LET p == call[c].p
                 s == call[c].s
             IN  /\ ~HExists(store', AgentsKey(p), s)
                 /\ OwnedLocks(store', p, s) = {}
                 /\ ~Has(store', MessagesKey(p, s))
                 /\ ~Has(store', TodosKey(p, s))]_vars

\* C14: unregister_agent(p, s) for a session s that is not in the agents hash
\* returns 'not_found', leaves the whole store as it was and enqueues nothing.
C14_NotFoundChangesNothing ==
    [][\A c \in Slots :
          (/\ Free(c) /\ call'[c] # call[c]
           /\ call'[c].op = "unregister_agent"
           /\ ~HExists(store, AgentsKey(call'[c].p), call'[c].s))
          => (/\ call'[c].pc = "done"
              /\ call'[c].ret.status = "not_found"
              /\ store' = store
              /\ enq' = enq)]_vars

\* a call has returned 'not_found' while the store holds another agent and its inbox
C14_Witness ==
    \E c \in Slots :
        /\ call[c].op = "unregister_agent" /\ call[c].pc = "done"
        /\ call[c].ret.status = "not_found"
        /\ ~HExists(store, AgentsKey(call[c].p), call[c].s)
        /\ HExists(store, AgentsKey(call[c].p), "s2")
        /\ Has(store, MessagesKey(call[c].p, "s2"))

\* the counts over the todo list as the cleanup deleted it
Counted(c) ==
    [total |-> Len(call[c].gone), completed |-> Count(call[c].gone, "completed"),
     pending |-> Count(call[c].gone, "pending"),
     in_progress |-> Count(call[c].gone, "in_progress")]

IsRegistered(p, s) == HExists(store, AgentsKey(p), s)

HasHeartbeat(p, s) == Has(store, HeartbeatKey(p, s))

\* no tool call of session s in project p is in flight
Quiet(p, s) == \A c \in Slots : Free(c) \/ call[c].p # p \/ call[c].s # s

\* C4: an agent whose heartbeat key has expired and who makes no further tool
\* call (one would set the key again) is eventually removed by the reaper.
C4_DeadAgentReaped ==
    \A p \in Projects, s \in Sessions :
        (IsRegistered(p, s) /\ ~HasHeartbeat(p, s) /\ Quiet(p, s))
            ~> (~IsRegistered(p, s) \/ HasHeartbeat(p, s))

\* C18: when the reaper has removed an agent whose heartbeat key was absent and
\* goes on to the next session, an agent_timeout event about the removed session
\* lies in the inbox of every agent remaining in that project.
C18_TimeoutBroadcast ==
    [][(mon.pc = "cl_del_todos" /\ mon' # mon)
       => \A a \in HKeys(store', AgentsKey(mon.p)) \ {mon.s} :
             \E i \in 1..Len(LRange(store', MessagesKey(mon.p, a))) :
                 /\ LRange(store', MessagesKey(mon.p, a))[i].type = "agent_timeout"
                 /\ LRange(store', MessagesKey(mon.p, a))[i].sess = mon.s]_vars

(***************************************************************************)
(* Claims about messaging.                                                  *)
(***************************************************************************)
\* C2: a waiting query_agent call of A to B, at one of whose polls B's response
\* to its id lay in A's inbox, returns 'received' with that response, not
\* 'timeout'.
C2_ResponseReceived ==
    \A c \in Slots :
        (/\ call[c].op = "query_agent" /\ call[c].pc = "done"
         /\ call[c].a = "wait" /\ call[c].seen)
        => (call[c].ret.status = "received" /\ call[c].ret.val = "R")

\* C8: the inbox from which a waiting query_agent reads, and removes the
\* response, is the querying session's own, never the recipient's.
C8_WaiterUsesOwnInbox ==
    \A c \in Slots :
        (call[c].op = "query_agent" /\ call[c].pc \in {"wait", "lrem"})
        => call[c].mkey = MessagesKey(call[c].p, call[c].s)

\* the messages a check_messages call has read, and returns
Got(c) == IF call[c].pc = "done" THEN call[c].ret.val ELSE call[c].snap

Eqs(seq) == {seq[i].eq : i \in 1..Len(seq)}

\* C5: no message is returned by two different check_messages calls, also when
\* the two calls interleave.
C5_ReturnedOnce ==
    \A c, d \in Slots :
        (/\ c # d
         /\ call[c].op = "check_messages" /\ call[d].op = "check_messages"
         /\ call[c].p = call[d].p /\ call[c].s = call[d].s)
        => Eqs(Got(c)) \cap Eqs(Got(d)) = {}

\* C6: a message appended to the inbox between the read and the delete of a
\* check_messages call is still in the inbox after the delete.
C6_NothingLostByDelete ==
    [][\A c \in Slots :
          (At(c, "check_messages", "delete") /\ call'[c].pc = "setex")
          => LET k == MessagesKey(call[c].p, call[c].s)
             IN  Eqs(LRange(store, k)) \ Eqs(call[c].snap) \subseteq Eqs(LRange(store', k))]_vars

Increasing(seq) == \A i, j \in 1..Len(seq) : i < j => seq[i].eq < seq[j].eq

\* C7: every inbox holds its messages in the order they were enqueued, and
\* check_messages returns them in that order.
C7_Fifo ==
    /\ \A s \in Sessions : Increasing(LRange(store, MessagesKey(P1, s)))
    /\ \A c \in Slots : call[c].op = "check_messages" => Increasing(Got(c))

\* a check_messages call has returned two messages
C7_Witness ==
    \E c \in Slots :
        call[c].op = "check_messages" /\ call[c].pc = "done" /\ Len(call[c].ret.val) >= 2

\* C19: a waiting query_agent call never polls after MaxPolls polling intervals,
\* and it ends: it returns 'received' or, when no matching response came before the
\* deadline, the result 'timeout'.
C19_WaitTerminates ==
    /\ [](\A c \in Slots : call[c].op = "query_agent" => call[c].n <= MaxPolls)
    /\ \A c \in Slots :
          (call[c].op = "query_agent" /\ call[c].a = "wait" /\ call[c].pc # "done")
              ~> (/\ call[c].op = "query_agent" /\ call[c].pc = "done"
                  /\ call[c].ret.status \in {"received", "timeout"})

\* a waiting call has slept through every polling interval of its timeout and has
\* returned 'timeout'
C19_Witness ==
    \E c \in Slots :
        /\ call[c].op = "query_agent" /\ call[c].pc = "done" /\ call[c].a = "wait"
        /\ call[c].ret.status = "timeout" /\ call[c].n = MaxPolls

\* C20: query_agent to a to_session that is not in the agents hash returns an error
\* result, starts no wait, leaves the store as it was and enqueues nothing.
C20_UnknownRecipient ==
    [][\A c \in Slots :
          (/\ Free(c) /\ call'[c] # call[c]
           /\ call'[c].op = "query_agent"
           /\ ~HExists(store, AgentsKey(call'[c].p), call'[c].t))
          => (/\ call'[c].pc = "done"
              /\ call'[c].ret.status = "error"
              /\ store' = store
              /\ enq' = enq)]_vars

\* a waiting query to s3 has returned 'error' and s3 has no inbox
C20_Witness ==
    \E c \in Slots :
        /\ call[c].op = "query_agent" /\ call[c].pc = "done" /\ call[c].a = "wait"
        /\ call[c].t = "s3" /\ call[c].ret.status = "error"
        /\ ~Has(store, MessagesKey(call[c].p, "s3"))

(***************************************************************************)
(* Claims about the heartbeat.                                              *)
(***************************************************************************)
SessionOps ==
    {"register_agent", "heartbeat", "check_messages", "announce_file_change",
     "mark_task_completed", "query_agent", "respond_to_query"}

Succeeded(c) ==
    /\ call[c].pc = "done"
    /\ call[c].ret.status \in
           {"registered", "ok", "locked", "success", "sent", "received", "response_sent"}

\* C9: every tool call made with a session name that completes successfully has
\* set that session's heartbeat key.
C9_HeartbeatRearmed ==
    \A c \in Slots : (call[c].op \in SessionOps /\ Succeeded(c)) => call[c].armed

(***************************************************************************)
(* Claims about broadcasts and events.                                      *)
(***************************************************************************)
Broadcast(c) == call[c].op = "broadcast_message" /\ call[c].pc = "done"

\* the messages that call c has pushed into the inbox of a and that lie there
PushedIn(c, a) ==
    LET box == LRange(store, MessagesKey(call[c].p, a))
    IN  {i \in 1..Len(box) : <<a, box[i].eq>> \in call[c].sent}

\* C21: broadcast_message(p, s, ...) appends exactly one message of type 'broadcast'
\* to the inbox of every session that the agents hash held when the call read it,
\* other than s, appends nothing to the inbox of s, and returns as 'recipients' the
\* number of inboxes it appended to.
C21_BroadcastToTheOthers ==
    \A c \in Slots :
      Broadcast(c) =>
        /\ call[c].ret.status = "broadcast_sent"
        /\ {x[1] : x \in call[c].sent} = call[c].rcpt \ {call[c].s}
        /\ Cardinality(call[c].sent) = Cardinality(call[c].rcpt \ {call[c].s})
        /\ call[c].ret.val = Cardinality({x[1] : x \in call[c].sent})
        /\ PushedIn(c, call[c].s) = {}
        /\ \A a \in call[c].rcpt \ {call[c].s} :
             LET box == LRange(store, MessagesKey(call[c].p, a))
             IN  /\ Cardinality(PushedIn(c, a)) = 1
                 /\ \A i \in PushedIn(c, a) :
                      /\ box[i].type = "broadcast"
                      /\ box[i].from = call[c].s
                      /\ box[i].content = "hello"

\* a broadcast of the registered s1 has returned that reached s2 and s3
C21_Witness ==
    \E c \in Slots :
      /\ Broadcast(c)
      /\ call[c].s = "s1"
      /\ call[c].rcpt = {"s1", "s2", "s3"}
      /\ call[c].ret.val = 2

\* C22: no event that a tool call of a session broadcasts is appended to the inbox
\* of that same session.
C22_NoEcho ==
    \A c \in Slots :
      call[c].op # "broadcast_message" => \A x \in call[c].sent : x[1] # call[c].s

(***************************************************************************)
(* Claims about todos.                                                      *)
(***************************************************************************)
\* C26: update_todo(p, s, id, status), run without interference, changes only the
\* status of the items with that id, and their completed_at when the status is
\* 'completed': the list keeps its length and order and every other item and field;
\* 'completed' is broadcast as a todo_completed event; when no item has the id the
\* call returns 'not_found', the list is as it was and nothing is broadcast.
C26_UpdateTodoFrame ==
    [][\A c \in Slots :
         At(c, "update_todo", "setex") /\ call'[c].pc = "done" =>
           LET old == call[c].snap
               new == LRange(store', TodosKey(call[c].p, call[c].s))
               hit == {i \in 1..Len(old) : old[i].id = call[c].id}
               events == {x \in call[c].sent :
                            \E i \in 1..Len(LRange(store', MessagesKey(call[c].p, x[1]))) :
                              LET m == LRange(store', MessagesKey(call[c].p, x[1]))[i]
                              IN  /\ m.eq = x[2]
                                  /\ m.type = "todo_completed"
                                  /\ m.sess = call[c].s}
           IN  /\ Len(new) = Len(old)
               /\ \A i \in 1..Len(old) :
                    /\ new[i].id = old[i].id
                    /\ new[i].eq = old[i].eq
                    /\ i \notin hit => new[i] = old[i]
                    /\ i \in hit => new[i].status = call[c].a
                    /\ new[i].completed_at # old[i].completed_at =>
                         i \in hit /\ call[c].a = "completed"
               /\ call'[c].ret.status = IF hit = {} THEN "not_found" ELSE "updated"
               /\ hit # {} /\ call[c].a = "completed" =>
                    /\ events = call[c].sent
                    /\ call[c].rcpt \ {call[c].s} \subseteq {x[1] : x \in events}
                    /\ call[c].rcpt \ {call[c].s} # {}
               /\ hit = {} \/ call[c].a # "completed" => call[c].sent = {}]_vars

\* an update to 'completed' that hit one of two items is about to return
C26_Witness ==
    /\ At("c1", "update_todo", "setex")
    /\ call["c1"].a = "completed"
    /\ call["c1"].id = 2
    /\ Len(call["c1"].snap) = 2
    /\ call["c1"].sent # {}
    /\ store[TodosKey(P1, "s1")][2].status = "completed"
    /\ store[TodosKey(P1, "s1")][1] = call["c1"].snap[1]

(***************************************************************************)
(* Claims about task completion.                                            *)
(***************************************************************************)
\* the store st with the value v under field f of the hash at k, nothing else changed
WithField(st, k, f, v) ==
    [x \in DOMAIN st \cup {k} |->
       IF x # k THEN st[x]
       ELSE [y \in HKeys(st, k) \cup {f} |-> IF y = f THEN v ELSE st[k][y]]]

\* C27: mark_task_completed(p, s, task_id) writes the completed_tasks entry of
\* task_id and sets the status of the agent record of s to 'completed', leaving the
\* other fields of the record and the rest of the store as they are; it returns
\* 'success' whether the status file was written or not.
C27_CompletionWritten ==
    [][\A c \in Slots :
         LET p == call'[c].p
             s == call'[c].s
         IN  /\ call[c].pc = "done" /\ call'[c].op = "mark_task_completed"
                  /\ call'[c].pc = "hget" =>
                    store' = WithField(store, CompletedKey(p), call'[c].f,
                                       [task_id |-> call'[c].f, session_name |-> s])
             /\ At(c, "mark_task_completed", "hget") /\ call'[c].pc = "done" =>
                    /\ store' = store
                    /\ ~HExists(store, AgentsKey(p), s)
                    /\ call'[c].ret.status = "success"
             /\ At(c, "mark_task_completed", "hset") /\ call'[c] # call[c] =>
                    /\ HExists(store, AgentsKey(p), s)
                    /\ store' = WithField(store, AgentsKey(p), s,
                                          [task_id |-> store[AgentsKey(p)][s].task_id,
                                           status |-> "completed"])
                    /\ call'[c].pc = "done"
                    /\ call'[c].ret.status = "success"]_vars

\* a completion of the registered s1 has returned and the status file is not there
C27_Witness ==
    \E c \in Slots :
      /\ call[c].op = "mark_task_completed"
      /\ call[c].pc = "done"
      /\ call[c].s = "s1"
      /\ call[c].ret.status = "success"
      /\ store[AgentsKey(P1)]["s1"].status = "completed"
      /\ HExists(store, CompletedKey(P1), "T1")
      /\ "s1" \notin files

(***************************************************************************)
(* Claims about the projects and the cleanup.                               *)
(***************************************************************************)
\* C28: projects are isolated: while the reaper works on the agents it read from the
\* agents hash of a project, the project whose heartbeat, lock, agents, messages and
\* todos keys it reads and deletes is that same project.
C28_ReaperSameProject ==
    mon.pc \in {"get", "cl_hgetall", "cl_hdel_lock", "cl_hdel_agent", "cl_del_messages",
                "cl_del_todos"}
      => AgentsKey(mon.p) = mon.key

CleanupPcs == {"cl_hdel_lock", "cl_hdel_agent", "cl_del_messages", "cl_del_todos"}

\* the cleanup of session s in project p is between two of its store calls
Cleaning(p, s) ==
    \/ \E c \in Slots : /\ call[c].op = "unregister_agent"
                        /\ call[c].pc \in CleanupPcs
                        /\ call[c].p = p
                        /\ call[c].s = s
    \/ mon.pc \in CleanupPcs /\ mon.p = p /\ mon.s = s

\* C29: the cleanup deletes the agent record last: in no state between two store
\* calls of a cleanup of s is the agent record of s gone while the todo list or the
\* inbox of s exists.
C29_AgentRecordLast ==
    \A p \in Projects, s \in Sessions :
      Cleaning(p, s) =>
        \/ HExists(store, AgentsKey(p), s)
        \/ ~Has(store, TodosKey(p, s)) /\ ~Has(store, MessagesKey(p, s))

\* the locks that the cleanup of s in p found in its hgetall and has not yet deleted
LocksToDelete(p, s) ==
    UNION ({call[c].lk : c \in {d \in Slots : /\ call[d].op = "unregister_agent"
                                              /\ call[d].pc \in CleanupPcs
                                              /\ call[d].p = p
                                              /\ call[d].s = s}}
           \cup {IF mon.pc \in CleanupPcs /\ mon.p = p /\ mon.s = s THEN mon.lk ELSE {}})

\* C30: in the cleanup the locks are released before the agent record is deleted:
\* in every state between two store calls of a cleanup of s, if a lock that s held
\* when the cleanup read the locks hash is still in the locks hash, the agent record
\* of s is still in the agents hash.
C30_LocksBeforeAgent ==
    \A p \in Projects, s \in Sessions :
      Cleaning(p, s) /\ LocksToDelete(p, s) \cap OwnedLocks(store, p, s) # {}
        => HExists(store, AgentsKey(p), s)

(***************************************************************************)
(* Claims about interfaces.                                                 *)
(***************************************************************************)
RegistersInterface(c) ==
    /\ call[c].pc = "done"
    /\ call'[c].op = "register_interface"
    /\ call'[c].pc = "bc_hkeys"

\* C24: interface registration is last-writer-wins: every register_interface call,
\* first or repeated, puts its definition and its session under the name, leaving
\* the other names alone, and nothing else changes the interfaces hash; every
\* call enqueues one interface_registered event carrying the definition to every
\* registered agent other than the caller.
C24_LastWriterWins ==
    [][/\ \A c \in Slots :
            RegistersInterface(c) =>
              store' = WithField(store, InterfacesKey(call'[c].p), call'[c].id,
                                 [definition |-> call'[c].a,
                                  registered_by |-> call'[c].s,
                                  file_path |-> call'[c].f])
       /\ HKeys(store', InterfacesKey(P1)) # HKeys(store, InterfacesKey(P1))
            \/ (\E n \in HKeys(store, InterfacesKey(P1)) :
                  store'[InterfacesKey(P1)][n] # store[InterfacesKey(P1)][n])
            => \E c \in Slots : RegistersInterface(c)
       /\ \A c \in Slots :
            At(c, "register_interface", "setex") /\ call'[c].pc = "done" =>
              /\ {x[1] : x \in call[c].sent} = call[c].rcpt \ {call[c].s}
              /\ Cardinality(call[c].sent) = Cardinality(call[c].rcpt \ {call[c].s})
              /\ \A a \in call[c].rcpt \ {call[c].s} :
                   LET box == LRange(store', MessagesKey(call[c].p, a))
                       evs == EventsIn(store', c, a, "interface_registered", call[c].s)
                   IN  /\ Cardinality(evs) = 1
                       /\ \A i \in evs : box[i].content = call[c].a]_vars

\* s2 has registered again, with another definition, a name that s1 had registered,
\* and the entry is that of s2
C24_Witness ==
    \E c, d \in Slots :
      /\ call[c].op = "register_interface" /\ call[c].pc = "done" /\ call[c].s = "s2"
      /\ call[d].op = "register_interface" /\ call[d].pc = "done" /\ call[d].s = "s1"
      /\ call[c].id = call[d].id
      /\ call[c].a # call[d].a
      /\ \E x \in call[d].sent : x[2] <= call[c].enq0
      /\ call[c].sent # {}
      /\ store[InterfacesKey(P1)][call[c].id] =
           [definition |-> call[c].a, registered_by |-> "s2", file_path |-> "a.ts"]

\* sub is in str when the case of the letters is ignored
InIgnoringCase(sub, str) ==
    \E i \in 0..(Len(str) - Len(sub)) :
      \A j \in 1..Len(sub) : LowerChar(str[i + j]) = LowerChar(sub[j])

\* C25: query_interface(p, name) returns the stored entry when name is a key of the
\* interfaces hash; otherwise it returns 'not_found' with, as 'similar', exactly the
\* registered names that contain name when the case of the letters is ignored; it
\* never changes the store.
C25_QueryInterface ==
    [][\A c \in Slots :
         /\ call[c].pc = "done" /\ call'[c].op = "query_interface" /\ call'[c] # call[c] =>
              /\ store' = store
              /\ IF HExists(store, InterfacesKey(call'[c].p), call'[c].id)
                 THEN /\ call'[c].pc = "done"
                      /\ call'[c].ret.status = "found"
                      /\ call'[c].ret.val = store[InterfacesKey(call'[c].p)][call'[c].id]
                 ELSE call'[c].pc # "done"
         /\ At(c, "query_interface", "hkeys") /\ call'[c] # call[c] =>
              /\ store' = store
              /\ call'[c].pc = "done"
              /\ call'[c].ret.status = "not_found"
              /\ call'[c].ret.val =
                   {n \in HKeys(store, InterfacesKey(call[c].p)) :
                      InIgnoringCase(call[c].id, n)}]_vars

\* the lookup of "aB" has returned 'not_found' with the registered "Ab" as similar
C25_Witness ==
    \E c \in Slots :
      /\ call[c].op = "query_interface"
      /\ call[c].pc = "done"
      /\ call[c].id = <<"a", "B">>
      /\ call[c].ret.status = "not_found"
      /\ call[c].ret.val = {<<"A", "b">>}
      /\ HKeys(store, InterfacesKey(P1)) = {<<"A", "b">>, <<"b">>}

(***************************************************************************)
(* Claims about the reaper and its races.                                   *)
(***************************************************************************)
\* C31: the reaper removes a session only when its heartbeat is absent: no step of
\* the reaper's cleanup of a session of the project it read the session from
\* deletes the agent record, a lock, the inbox or the todo list of the session
\* while the heartbeat key of the session exists.
C31_ReapedOnlyWhenDead ==
    [][/\ mon.pc \in CleanupPcs
       /\ mon' # mon
       /\ mon.key = AgentsKey(mon.p)
       /\ store' # store
       => ~HasHeartbeat(mon.p, mon.s)]_vars

\* C32: the reaper loop does not stop because of an error: an agent whose heartbeat
\* key has run out is removed by a later tick, or has set the key again, whichever
\* store calls of the reaper failed before.
C32_ReapedAfterErrors ==
    \A s \in Sessions :
        (IsRegistered(P1, s) /\ ~HasHeartbeat(P1, s))
            ~> (~IsRegistered(P1, s) \/ HasHeartbeat(P1, s))

\* an error broke off the cleanup of s1 while its agent record was there, and the
\* record has been removed since
C32_Witness ==
    /\ mon.lost = "s1"
    /\ mon.err > 0
    /\ ~IsRegistered(P1, "s1")
    /\ ~HasHeartbeat(P1, "s1")

(***************************************************************************)
(* Claims about concurrent calls.                                           *)
(***************************************************************************)
Added(c) == call[c].op = "add_todo" /\ call[c].pc = "done"

\* C33: todos are not lost or reordered by concurrent add_todo and update_todo calls
\* on one list: once the calls have returned, every item whose add_todo returned is
\* in the list exactly once, and the items lie in the order in which they were
\* added.
C33_TodosKept ==
    (\A c \in Slots : Free(c)) =>
      LET todos == LRange(store, TodosKey(P1, "s1"))
      IN  /\ \A c \in Slots :
               Added(c) =>
                 Cardinality({i \in 1..Len(todos) : todos[i].id = call[c].id}) = 1
          /\ \A i, j \in 1..Len(todos) : i < j => todos[i].eq < todos[j].eq

\* C34: mark_task_completed never creates an agent record: no step of the call adds
\* a session to the agents hash.
C34_CompletionCreatesNoAgent ==
    [][\A c \in Slots :
         call[c].op = "mark_task_completed" /\ call[c].pc # "done" /\ call'[c] # call[c]
           => HKeys(store', AgentsKey(call[c].p)) \subseteq HKeys(store, AgentsKey(call[c].p))]_vars

\* no cleanup is in progress
NoCleanup ==
    /\ \A c \in Slots : call[c].op = "unregister_agent" => call[c].pc = "done"
    /\ mon.pc \notin CleanupPcs \cup {"cl_hgetall"}

\* C35: in every state in which no cleanup is in progress, an inbox or a todo list
\* exists only for sessions that are in the agents hash of the project.
C35_ListsOnlyOfAgents ==
    NoCleanup =>
      \A p \in Projects, s \in Sessions :
        Has(store, MessagesKey(p, s)) \/ Has(store, TodosKey(p, s)) => IsRegistered(p, s)

\* a step of a cleanup of session s in project p is taken
CleanupStep(p, s) ==
    \/ \E c \in Slots : /\ call[c].op = "unregister_agent"
                        /\ call[c].pc \in CleanupPcs
                        /\ call'[c] # call[c]
                        /\ call[c].p = p
                        /\ call[c].s = s
    \/ mon.pc \in CleanupPcs /\ mon' # mon /\ mon.p = p /\ mon.s = s

\* C36: the cleanup of session s touches only what is s's own: each of its steps
\* deletes a lock that s owns, the agent record of s, the inbox of s or the todo
\* list of s, and leaves everything else in the store as it is.
C36_CleanupTouchesOwn ==
    [][\A p \in Projects, s \in Sessions :
         CleanupStep(p, s) =>
           \/ store' = store
           \/ store' = HDel(store, AgentsKey(p), s)
           \/ store' = Del(store, MessagesKey(p, s))
           \/ store' = Del(store, TodosKey(p, s))
           \/ \E f \in OwnedLocks(store, p, s) : store' = HDel(store, LocksKey(p), f)]_vars

(***************************************************************************)
(* Claims about queries that timed out.                                     *)
(***************************************************************************)
TimedOut(c) ==
    call[c].op = "query_agent" /\ call[c].pc = "done" /\ call[c].ret.status = "timeout"

\* C37: a query whose wait timed out is not withdrawn: once query_agent has returned
\* 'timeout', the query message and every response to it leave the inbox they lie
\* in only by the delete of a check_messages call that has read them, and returns
\* them.
C37_TimedOutQueryStays ==
    [][\A c \in Slots :
         TimedOut(c) /\ call'[c] = call[c] =>
           \A s \in Sessions :
             LET k == MessagesKey(call[c].p, s)
                 box == LRange(store, k)
             IN  \A i \in 1..Len(box) :
                   \/ box[i].type = "query" /\ box[i].id = call[c].id
                   \/ box[i].type = "response" /\ box[i].re = call[c].id
                   => \/ box[i].eq \in Eqs(LRange(store', k))
                      \/ \E d \in Slots :
                           /\ At(d, "check_messages", "delete")
                           /\ call'[d].pc = "setex"
                           /\ call[d].p = call[c].p
                           /\ call[d].s = s
                           /\ box[i].eq \in Eqs(call[d].snap)]_vars

====
